---- MODULE Spec2Model ----
(***************************************************************************)
(* Model of .github/scripts/validate-commit.py: the CommitValidator class  *)
(* (a rule-based classifier of one commit message) and the main() entry    *)
(* point that picks the message source, runs the validator and exits.      *)
(*                                                                         *)
(* A Python str is modelled as the sequence of its code points, so that    *)
(* strip, split, lower, the regular expressions and the str predicates are *)
(* computed character by character, as the interpreter computes them, for  *)
(* every character a str can hold.                                         *)
(***************************************************************************)
EXTENDS Integers, Sequences, FiniteSets, TLC

----------------------------------------------------------------------------
(* Characters and the str methods the script uses                          *)

(* The model's own texts are written with the printable ASCII characters:  *)
(* Codes gives the code points of a text written character by character.   *)

Range(f) == {f[i] : i \in DOMAIN f}

\* ord() of the printable ASCII characters, of the tab and of the line feed
Ord ==
    ("\t" :> 9) @@ ("\n" :> 10) @@ (" " :> 32) @@ ("!" :> 33) @@
    ("\"" :> 34) @@ ("#" :> 35) @@ ("$" :> 36) @@ ("%" :> 37) @@
    ("&" :> 38) @@ ("'" :> 39) @@ ("(" :> 40) @@ (")" :> 41) @@
    ("*" :> 42) @@ ("+" :> 43) @@ ("," :> 44) @@ ("-" :> 45) @@
    ("." :> 46) @@ ("/" :> 47) @@ ("0" :> 48) @@ ("1" :> 49) @@
    ("2" :> 50) @@ ("3" :> 51) @@ ("4" :> 52) @@ ("5" :> 53) @@
    ("6" :> 54) @@ ("7" :> 55) @@ ("8" :> 56) @@ ("9" :> 57) @@
    (":" :> 58) @@ (";" :> 59) @@ ("<" :> 60) @@ ("=" :> 61) @@
    (">" :> 62) @@ ("?" :> 63) @@ ("@" :> 64) @@ ("A" :> 65) @@
    ("B" :> 66) @@ ("C" :> 67) @@ ("D" :> 68) @@ ("E" :> 69) @@
    ("F" :> 70) @@ ("G" :> 71) @@ ("H" :> 72) @@ ("I" :> 73) @@
    ("J" :> 74) @@ ("K" :> 75) @@ ("L" :> 76) @@ ("M" :> 77) @@
    ("N" :> 78) @@ ("O" :> 79) @@ ("P" :> 80) @@ ("Q" :> 81) @@
    ("R" :> 82) @@ ("S" :> 83) @@ ("T" :> 84) @@ ("U" :> 85) @@
    ("V" :> 86) @@ ("W" :> 87) @@ ("X" :> 88) @@ ("Y" :> 89) @@
    ("Z" :> 90) @@ ("[" :> 91) @@ ("\\" :> 92) @@ ("]" :> 93) @@
    ("^" :> 94) @@ ("_" :> 95) @@ ("a" :> 97) @@ ("b" :> 98) @@
    ("c" :> 99) @@ ("d" :> 100) @@ ("e" :> 101) @@ ("f" :> 102) @@
    ("g" :> 103) @@ ("h" :> 104) @@ ("i" :> 105) @@ ("j" :> 106) @@
    ("k" :> 107) @@ ("l" :> 108) @@ ("m" :> 109) @@ ("n" :> 110) @@
    ("o" :> 111) @@ ("p" :> 112) @@ ("q" :> 113) @@ ("r" :> 114) @@
    ("s" :> 115) @@ ("t" :> 116) @@ ("u" :> 117) @@ ("v" :> 118) @@
    ("w" :> 119) @@ ("x" :> 120) @@ ("y" :> 121) @@ ("z" :> 122) @@
    ("{" :> 123) @@ ("|" :> 124) @@ ("}" :> 125) @@ ("~" :> 126)

Codes(text) == [i \in DOMAIN text |-> Ord[text[i]]]

RECURSIVE Concat(_)
Concat(ss) == IF ss = <<>> THEN <<>> ELSE Head(ss) \o Concat(Tail(ss))

(* The interpreter's character classes (Python 3.11, Unicode 14.0.0), each  *)
(* a table of runs <<first, last, step>> of code points: the run holds      *)
(* first, first + step, ... up to last.  The runs of a table are in         *)
(* ascending order and none lies inside another.  The tables cover all of   *)
(* U+0000..U+10FFFF.                                                        *)

\* the index of the last of runs[lo..hi] that starts at c or before it, or best
RECURSIVE LastRunFrom(_, _, _, _, _)
LastRunFrom(c, runs, lo, hi, best) ==
    IF lo > hi THEN best
    ELSE IF runs[(lo + hi) \div 2][1] <= c
         THEN LastRunFrom(c, runs, ((lo + hi) \div 2) + 1, hi, (lo + hi) \div 2)
         ELSE LastRunFrom(c, runs, lo, ((lo + hi) \div 2) - 1, best)

\* the index of the run that may hold c, 0 when every run starts after c
RunOf(c, runs) == LastRunFrom(c, runs, 1, Len(runs), 0)

InRun(c, runs, k) ==
    /\ k # 0
    /\ c <= runs[k][2]
    /\ (c - runs[k][1]) % runs[k][3] = 0

\* c is in the class the table gives
InRuns(c, runs) == InRun(c, runs, RunOf(c, runs))

\* str.isspace(): what str.strip() removes
SpaceChars ==
    <<<<9,13,1>>,<<28,32,1>>,<<133,133,1>>,<<160,160,1>>,<<5760,5760,1>>,
      <<8192,8202,1>>,<<8232,8233,1>>,<<8239,8239,1>>,<<8287,8287,1>>,
      <<12288,12288,1>>>>

\* \d of the re module on a str pattern: the decimal digits of every script
DigitChars ==
    <<<<48,57,1>>,<<1632,1641,1>>,<<1776,1785,1>>,<<1984,1993,1>>,
      <<2406,2415,1>>,<<2534,2543,1>>,<<2662,2671,1>>,<<2790,2799,1>>,
      <<2918,2927,1>>,<<3046,3055,1>>,<<3174,3183,1>>,<<3302,3311,1>>,
      <<3430,3439,1>>,<<3558,3567,1>>,<<3664,3673,1>>,<<3792,3801,1>>,
      <<3872,3881,1>>,<<4160,4169,1>>,<<4240,4249,1>>,<<6112,6121,1>>,
      <<6160,6169,1>>,<<6470,6479,1>>,<<6608,6617,1>>,<<6784,6793,1>>,
      <<6800,6809,1>>,<<6992,7001,1>>,<<7088,7097,1>>,<<7232,7241,1>>,
      <<7248,7257,1>>,<<42528,42537,1>>,<<43216,43225,1>>,<<43264,43273,1>>,
      <<43472,43481,1>>,<<43504,43513,1>>,<<43600,43609,1>>,<<44016,44025,1>>,
      <<65296,65305,1>>,<<66720,66729,1>>,<<68912,68921,1>>,<<69734,69743,1>>,
      <<69872,69881,1>>,<<69942,69951,1>>,<<70096,70105,1>>,<<70384,70393,1>>,
      <<70736,70745,1>>,<<70864,70873,1>>,<<71248,71257,1>>,<<71360,71369,1>>,
      <<71472,71481,1>>,<<71904,71913,1>>,<<72016,72025,1>>,<<72784,72793,1>>,
      <<73040,73049,1>>,<<73120,73129,1>>,<<92768,92777,1>>,<<92864,92873,1>>,
      <<93008,93017,1>>,<<120782,120831,1>>,<<123200,123209,1>>,
      <<123632,123641,1>>,<<125264,125273,1>>,<<130032,130041,1>>>>

\* str.isalnum() of one character
AlnumChars ==
    <<<<48,57,1>>,<<65,90,1>>,<<97,122,1>>,<<170,170,1>>,<<178,179,1>>,
      <<181,181,1>>,<<185,186,1>>,<<188,190,1>>,<<192,214,1>>,<<216,246,1>>,
      <<248,705,1>>,<<710,721,1>>,<<736,740,1>>,<<748,748,1>>,<<750,750,1>>,
      <<880,884,1>>,<<886,887,1>>,<<890,893,1>>,<<895,895,1>>,<<902,902,1>>,
      <<904,906,1>>,<<908,908,1>>,<<910,929,1>>,<<931,1013,1>>,
      <<1015,1153,1>>,<<1162,1327,1>>,<<1329,1366,1>>,<<1369,1369,1>>,
      <<1376,1416,1>>,<<1488,1514,1>>,<<1519,1522,1>>,<<1568,1610,1>>,
      <<1632,1641,1>>,<<1646,1647,1>>,<<1649,1747,1>>,<<1749,1749,1>>,
      <<1765,1766,1>>,<<1774,1788,1>>,<<1791,1791,1>>,<<1808,1808,1>>,
      <<1810,1839,1>>,<<1869,1957,1>>,<<1969,1969,1>>,<<1984,2026,1>>,
      <<2036,2037,1>>,<<2042,2042,1>>,<<2048,2069,1>>,<<2074,2074,1>>,
      <<2084,2084,1>>,<<2088,2088,1>>,<<2112,2136,1>>,<<2144,2154,1>>,
      <<2160,2183,1>>,<<2185,2190,1>>,<<2208,2249,1>>,<<2308,2361,1>>,
      <<2365,2365,1>>,<<2384,2384,1>>,<<2392,2401,1>>,<<2406,2415,1>>,
      <<2417,2432,1>>,<<2437,2444,1>>,<<2447,2448,1>>,<<2451,2472,1>>,
      <<2474,2480,1>>,<<2482,2482,1>>,<<2486,2489,1>>,<<2493,2493,1>>,
      <<2510,2510,1>>,<<2524,2525,1>>,<<2527,2529,1>>,<<2534,2545,1>>,
      <<2548,2553,1>>,<<2556,2556,1>>,<<2565,2570,1>>,<<2575,2576,1>>,
      <<2579,2600,1>>,<<2602,2608,1>>,<<2610,2611,1>>,<<2613,2614,1>>,
      <<2616,2617,1>>,<<2649,2652,1>>,<<2654,2654,1>>,<<2662,2671,1>>,
      <<2674,2676,1>>,<<2693,2701,1>>,<<2703,2705,1>>,<<2707,2728,1>>,
      <<2730,2736,1>>,<<2738,2739,1>>,<<2741,2745,1>>,<<2749,2749,1>>,
      <<2768,2768,1>>,<<2784,2785,1>>,<<2790,2799,1>>,<<2809,2809,1>>,
      <<2821,2828,1>>,<<2831,2832,1>>,<<2835,2856,1>>,<<2858,2864,1>>,
      <<2866,2867,1>>,<<2869,2873,1>>,<<2877,2877,1>>,<<2908,2909,1>>,
      <<2911,2913,1>>,<<2918,2927,1>>,<<2929,2935,1>>,<<2947,2947,1>>,
      <<2949,2954,1>>,<<2958,2960,1>>,<<2962,2965,1>>,<<2969,2970,1>>,
      <<2972,2972,1>>,<<2974,2975,1>>,<<2979,2980,1>>,<<2984,2986,1>>,
      <<2990,3001,1>>,<<3024,3024,1>>,<<3046,3058,1>>,<<3077,3084,1>>,
      <<3086,3088,1>>,<<3090,3112,1>>,<<3114,3129,1>>,<<3133,3133,1>>,
      <<3160,3162,1>>,<<3165,3165,1>>,<<3168,3169,1>>,<<3174,3183,1>>,
      <<3192,3198,1>>,<<3200,3200,1>>,<<3205,3212,1>>,<<3214,3216,1>>,
      <<3218,3240,1>>,<<3242,3251,1>>,<<3253,3257,1>>,<<3261,3261,1>>,
      <<3293,3294,1>>,<<3296,3297,1>>,<<3302,3311,1>>,<<3313,3314,1>>,
      <<3332,3340,1>>,<<3342,3344,1>>,<<3346,3386,1>>,<<3389,3389,1>>,
      <<3406,3406,1>>,<<3412,3414,1>>,<<3416,3425,1>>,<<3430,3448,1>>,
      <<3450,3455,1>>,<<3461,3478,1>>,<<3482,3505,1>>,<<3507,3515,1>>,
      <<3517,3517,1>>,<<3520,3526,1>>,<<3558,3567,1>>,<<3585,3632,1>>,
      <<3634,3635,1>>,<<3648,3654,1>>,<<3664,3673,1>>,<<3713,3714,1>>,
      <<3716,3716,1>>,<<3718,3722,1>>,<<3724,3747,1>>,<<3749,3749,1>>,
      <<3751,3760,1>>,<<3762,3763,1>>,<<3773,3773,1>>,<<3776,3780,1>>,
      <<3782,3782,1>>,<<3792,3801,1>>,<<3804,3807,1>>,<<3840,3840,1>>,
      <<3872,3891,1>>,<<3904,3911,1>>,<<3913,3948,1>>,<<3976,3980,1>>,
      <<4096,4138,1>>,<<4159,4169,1>>,<<4176,4181,1>>,<<4186,4189,1>>,
      <<4193,4193,1>>,<<4197,4198,1>>,<<4206,4208,1>>,<<4213,4225,1>>,
      <<4238,4238,1>>,<<4240,4249,1>>,<<4256,4293,1>>,<<4295,4295,1>>,
      <<4301,4301,1>>,<<4304,4346,1>>,<<4348,4680,1>>,<<4682,4685,1>>,
      <<4688,4694,1>>,<<4696,4696,1>>,<<4698,4701,1>>,<<4704,4744,1>>,
      <<4746,4749,1>>,<<4752,4784,1>>,<<4786,4789,1>>,<<4792,4798,1>>,
      <<4800,4800,1>>,<<4802,4805,1>>,<<4808,4822,1>>,<<4824,4880,1>>,
      <<4882,4885,1>>,<<4888,4954,1>>,<<4969,4988,1>>,<<4992,5007,1>>,
      <<5024,5109,1>>,<<5112,5117,1>>,<<5121,5740,1>>,<<5743,5759,1>>,
      <<5761,5786,1>>,<<5792,5866,1>>,<<5870,5880,1>>,<<5888,5905,1>>,
      <<5919,5937,1>>,<<5952,5969,1>>,<<5984,5996,1>>,<<5998,6000,1>>,
      <<6016,6067,1>>,<<6103,6103,1>>,<<6108,6108,1>>,<<6112,6121,1>>,
      <<6128,6137,1>>,<<6160,6169,1>>,<<6176,6264,1>>,<<6272,6276,1>>,
      <<6279,6312,1>>,<<6314,6314,1>>,<<6320,6389,1>>,<<6400,6430,1>>,
      <<6470,6509,1>>,<<6512,6516,1>>,<<6528,6571,1>>,<<6576,6601,1>>,
      <<6608,6618,1>>,<<6656,6678,1>>,<<6688,6740,1>>,<<6784,6793,1>>,
      <<6800,6809,1>>,<<6823,6823,1>>,<<6917,6963,1>>,<<6981,6988,1>>,
      <<6992,7001,1>>,<<7043,7072,1>>,<<7086,7141,1>>,<<7168,7203,1>>,
      <<7232,7241,1>>,<<7245,7293,1>>,<<7296,7304,1>>,<<7312,7354,1>>,
      <<7357,7359,1>>,<<7401,7404,1>>,<<7406,7411,1>>,<<7413,7414,1>>,
      <<7418,7418,1>>,<<7424,7615,1>>,<<7680,7957,1>>,<<7960,7965,1>>,
      <<7968,8005,1>>,<<8008,8013,1>>,<<8016,8023,1>>,<<8025,8031,2>>,
      <<8032,8061,1>>,<<8064,8116,1>>,<<8118,8124,1>>,<<8126,8126,1>>,
      <<8130,8132,1>>,<<8134,8140,1>>,<<8144,8147,1>>,<<8150,8155,1>>,
      <<8160,8172,1>>,<<8178,8180,1>>,<<8182,8188,1>>,<<8304,8305,1>>,
      <<8308,8313,1>>,<<8319,8329,1>>,<<8336,8348,1>>,<<8450,8450,1>>,
      <<8455,8455,1>>,<<8458,8467,1>>,<<8469,8469,1>>,<<8473,8477,1>>,
      <<8484,8490,2>>,<<8491,8493,1>>,<<8495,8505,1>>,<<8508,8511,1>>,
      <<8517,8521,1>>,<<8526,8526,1>>,<<8528,8585,1>>,<<9312,9371,1>>,
      <<9450,9471,1>>,<<10102,10131,1>>,<<11264,11492,1>>,<<11499,11502,1>>,
      <<11506,11507,1>>,<<11517,11517,1>>,<<11520,11557,1>>,<<11559,11559,1>>,
      <<11565,11565,1>>,<<11568,11623,1>>,<<11631,11631,1>>,<<11648,11670,1>>,
      <<11680,11686,1>>,<<11688,11694,1>>,<<11696,11702,1>>,<<11704,11710,1>>,
      <<11712,11718,1>>,<<11720,11726,1>>,<<11728,11734,1>>,<<11736,11742,1>>,
      <<11823,11823,1>>,<<12293,12295,1>>,<<12321,12329,1>>,<<12337,12341,1>>,
      <<12344,12348,1>>,<<12353,12438,1>>,<<12445,12447,1>>,<<12449,12538,1>>,
      <<12540,12543,1>>,<<12549,12591,1>>,<<12593,12686,1>>,<<12690,12693,1>>,
      <<12704,12735,1>>,<<12784,12799,1>>,<<12832,12841,1>>,<<12872,12879,1>>,
      <<12881,12895,1>>,<<12928,12937,1>>,<<12977,12991,1>>,<<13312,19903,1>>,
      <<19968,42124,1>>,<<42192,42237,1>>,<<42240,42508,1>>,<<42512,42539,1>>,
      <<42560,42606,1>>,<<42623,42653,1>>,<<42656,42735,1>>,<<42775,42783,1>>,
      <<42786,42888,1>>,<<42891,42954,1>>,<<42960,42961,1>>,<<42963,42963,1>>,
      <<42965,42969,1>>,<<42994,43009,1>>,<<43011,43013,1>>,<<43015,43018,1>>,
      <<43020,43042,1>>,<<43056,43061,1>>,<<43072,43123,1>>,<<43138,43187,1>>,
      <<43216,43225,1>>,<<43250,43255,1>>,<<43259,43259,1>>,<<43261,43262,1>>,
      <<43264,43301,1>>,<<43312,43334,1>>,<<43360,43388,1>>,<<43396,43442,1>>,
      <<43471,43481,1>>,<<43488,43492,1>>,<<43494,43518,1>>,<<43520,43560,1>>,
      <<43584,43586,1>>,<<43588,43595,1>>,<<43600,43609,1>>,<<43616,43638,1>>,
      <<43642,43642,1>>,<<43646,43695,1>>,<<43697,43697,1>>,<<43701,43702,1>>,
      <<43705,43709,1>>,<<43712,43712,1>>,<<43714,43714,1>>,<<43739,43741,1>>,
      <<43744,43754,1>>,<<43762,43764,1>>,<<43777,43782,1>>,<<43785,43790,1>>,
      <<43793,43798,1>>,<<43808,43814,1>>,<<43816,43822,1>>,<<43824,43866,1>>,
      <<43868,43881,1>>,<<43888,44002,1>>,<<44016,44025,1>>,<<44032,55203,1>>,
      <<55216,55238,1>>,<<55243,55291,1>>,<<63744,64109,1>>,<<64112,64217,1>>,
      <<64256,64262,1>>,<<64275,64279,1>>,<<64285,64285,1>>,<<64287,64296,1>>,
      <<64298,64310,1>>,<<64312,64316,1>>,<<64318,64318,1>>,<<64320,64321,1>>,
      <<64323,64324,1>>,<<64326,64433,1>>,<<64467,64829,1>>,<<64848,64911,1>>,
      <<64914,64967,1>>,<<65008,65019,1>>,<<65136,65140,1>>,<<65142,65276,1>>,
      <<65296,65305,1>>,<<65313,65338,1>>,<<65345,65370,1>>,<<65382,65470,1>>,
      <<65474,65479,1>>,<<65482,65487,1>>,<<65490,65495,1>>,<<65498,65500,1>>,
      <<65536,65547,1>>,<<65549,65574,1>>,<<65576,65594,1>>,<<65596,65597,1>>,
      <<65599,65613,1>>,<<65616,65629,1>>,<<65664,65786,1>>,<<65799,65843,1>>,
      <<65856,65912,1>>,<<65930,65931,1>>,<<66176,66204,1>>,<<66208,66256,1>>,
      <<66273,66299,1>>,<<66304,66339,1>>,<<66349,66378,1>>,<<66384,66421,1>>,
      <<66432,66461,1>>,<<66464,66499,1>>,<<66504,66511,1>>,<<66513,66517,1>>,
      <<66560,66717,1>>,<<66720,66729,1>>,<<66736,66771,1>>,<<66776,66811,1>>,
      <<66816,66855,1>>,<<66864,66915,1>>,<<66928,66938,1>>,<<66940,66954,1>>,
      <<66956,66962,1>>,<<66964,66965,1>>,<<66967,66977,1>>,<<66979,66993,1>>,
      <<66995,67001,1>>,<<67003,67004,1>>,<<67072,67382,1>>,<<67392,67413,1>>,
      <<67424,67431,1>>,<<67456,67461,1>>,<<67463,67504,1>>,<<67506,67514,1>>,
      <<67584,67589,1>>,<<67592,67592,1>>,<<67594,67637,1>>,<<67639,67640,1>>,
      <<67644,67644,1>>,<<67647,67669,1>>,<<67672,67702,1>>,<<67705,67742,1>>,
      <<67751,67759,1>>,<<67808,67826,1>>,<<67828,67829,1>>,<<67835,67867,1>>,
      <<67872,67897,1>>,<<67968,68023,1>>,<<68028,68047,1>>,<<68050,68096,1>>,
      <<68112,68115,1>>,<<68117,68119,1>>,<<68121,68149,1>>,<<68160,68168,1>>,
      <<68192,68222,1>>,<<68224,68255,1>>,<<68288,68295,1>>,<<68297,68324,1>>,
      <<68331,68335,1>>,<<68352,68405,1>>,<<68416,68437,1>>,<<68440,68466,1>>,
      <<68472,68497,1>>,<<68521,68527,1>>,<<68608,68680,1>>,<<68736,68786,1>>,
      <<68800,68850,1>>,<<68858,68899,1>>,<<68912,68921,1>>,<<69216,69246,1>>,
      <<69248,69289,1>>,<<69296,69297,1>>,<<69376,69415,1>>,<<69424,69445,1>>,
      <<69457,69460,1>>,<<69488,69505,1>>,<<69552,69579,1>>,<<69600,69622,1>>,
      <<69635,69687,1>>,<<69714,69743,1>>,<<69745,69746,1>>,<<69749,69749,1>>,
      <<69763,69807,1>>,<<69840,69864,1>>,<<69872,69881,1>>,<<69891,69926,1>>,
      <<69942,69951,1>>,<<69956,69956,1>>,<<69959,69959,1>>,<<69968,70002,1>>,
      <<70006,70006,1>>,<<70019,70066,1>>,<<70081,70084,1>>,<<70096,70106,1>>,
      <<70108,70108,1>>,<<70113,70132,1>>,<<70144,70161,1>>,<<70163,70187,1>>,
      <<70272,70278,1>>,<<70280,70280,1>>,<<70282,70285,1>>,<<70287,70301,1>>,
      <<70303,70312,1>>,<<70320,70366,1>>,<<70384,70393,1>>,<<70405,70412,1>>,
      <<70415,70416,1>>,<<70419,70440,1>>,<<70442,70448,1>>,<<70450,70451,1>>,
      <<70453,70457,1>>,<<70461,70461,1>>,<<70480,70480,1>>,<<70493,70497,1>>,
      <<70656,70708,1>>,<<70727,70730,1>>,<<70736,70745,1>>,<<70751,70753,1>>,
      <<70784,70831,1>>,<<70852,70853,1>>,<<70855,70855,1>>,<<70864,70873,1>>,
      <<71040,71086,1>>,<<71128,71131,1>>,<<71168,71215,1>>,<<71236,71236,1>>,
      <<71248,71257,1>>,<<71296,71338,1>>,<<71352,71352,1>>,<<71360,71369,1>>,
      <<71424,71450,1>>,<<71472,71483,1>>,<<71488,71494,1>>,<<71680,71723,1>>,
      <<71840,71922,1>>,<<71935,71942,1>>,<<71945,71945,1>>,<<71948,71955,1>>,
      <<71957,71958,1>>,<<71960,71983,1>>,<<71999,71999,1>>,<<72001,72001,1>>,
      <<72016,72025,1>>,<<72096,72103,1>>,<<72106,72144,1>>,<<72161,72161,1>>,
      <<72163,72163,1>>,<<72192,72192,1>>,<<72203,72242,1>>,<<72250,72250,1>>,
      <<72272,72272,1>>,<<72284,72329,1>>,<<72349,72349,1>>,<<72368,72440,1>>,
      <<72704,72712,1>>,<<72714,72750,1>>,<<72768,72768,1>>,<<72784,72812,1>>,
      <<72818,72847,1>>,<<72960,72966,1>>,<<72968,72969,1>>,<<72971,73008,1>>,
      <<73030,73030,1>>,<<73040,73049,1>>,<<73056,73061,1>>,<<73063,73064,1>>,
      <<73066,73097,1>>,<<73112,73112,1>>,<<73120,73129,1>>,<<73440,73458,1>>,
      <<73648,73648,1>>,<<73664,73684,1>>,<<73728,74649,1>>,<<74752,74862,1>>,
      <<74880,75075,1>>,<<77712,77808,1>>,<<77824,78894,1>>,<<82944,83526,1>>,
      <<92160,92728,1>>,<<92736,92766,1>>,<<92768,92777,1>>,<<92784,92862,1>>,
      <<92864,92873,1>>,<<92880,92909,1>>,<<92928,92975,1>>,<<92992,92995,1>>,
      <<93008,93017,1>>,<<93019,93025,1>>,<<93027,93047,1>>,<<93053,93071,1>>,
      <<93760,93846,1>>,<<93952,94026,1>>,<<94032,94032,1>>,<<94099,94111,1>>,
      <<94176,94177,1>>,<<94179,94179,1>>,<<94208,100343,1>>,
      <<100352,101589,1>>,<<101632,101640,1>>,<<110576,110579,1>>,
      <<110581,110587,1>>,<<110589,110590,1>>,<<110592,110882,1>>,
      <<110928,110930,1>>,<<110948,110951,1>>,<<110960,111355,1>>,
      <<113664,113770,1>>,<<113776,113788,1>>,<<113792,113800,1>>,
      <<113808,113817,1>>,<<119520,119539,1>>,<<119648,119672,1>>,
      <<119808,119892,1>>,<<119894,119964,1>>,<<119966,119967,1>>,
      <<119970,119970,1>>,<<119973,119974,1>>,<<119977,119980,1>>,
      <<119982,119993,1>>,<<119995,119995,1>>,<<119997,120003,1>>,
      <<120005,120069,1>>,<<120071,120074,1>>,<<120077,120084,1>>,
      <<120086,120092,1>>,<<120094,120121,1>>,<<120123,120126,1>>,
      <<120128,120132,1>>,<<120134,120134,1>>,<<120138,120144,1>>,
      <<120146,120485,1>>,<<120488,120512,1>>,<<120514,120538,1>>,
      <<120540,120570,1>>,<<120572,120596,1>>,<<120598,120628,1>>,
      <<120630,120654,1>>,<<120656,120686,1>>,<<120688,120712,1>>,
      <<120714,120744,1>>,<<120746,120770,1>>,<<120772,120779,1>>,
      <<120782,120831,1>>,<<122624,122654,1>>,<<123136,123180,1>>,
      <<123191,123197,1>>,<<123200,123209,1>>,<<123214,123214,1>>,
      <<123536,123565,1>>,<<123584,123627,1>>,<<123632,123641,1>>,
      <<124896,124902,1>>,<<124904,124907,1>>,<<124909,124910,1>>,
      <<124912,124926,1>>,<<124928,125124,1>>,<<125127,125135,1>>,
      <<125184,125251,1>>,<<125259,125259,1>>,<<125264,125273,1>>,
      <<126065,126123,1>>,<<126125,126127,1>>,<<126129,126132,1>>,
      <<126209,126253,1>>,<<126255,126269,1>>,<<126464,126467,1>>,
      <<126469,126495,1>>,<<126497,126498,1>>,<<126500,126500,1>>,
      <<126503,126503,1>>,<<126505,126514,1>>,<<126516,126519,1>>,
      <<126521,126521,1>>,<<126523,126523,1>>,<<126530,126530,1>>,
      <<126535,126541,2>>,<<126542,126543,1>>,<<126545,126546,1>>,
      <<126548,126548,1>>,<<126551,126561,2>>,<<126562,126562,1>>,
      <<126564,126564,1>>,<<126567,126570,1>>,<<126572,126578,1>>,
      <<126580,126583,1>>,<<126585,126588,1>>,<<126590,126590,1>>,
      <<126592,126601,1>>,<<126603,126619,1>>,<<126625,126627,1>>,
      <<126629,126633,1>>,<<126635,126651,1>>,<<127232,127244,1>>,
      <<130032,130041,1>>,<<131072,173791,1>>,<<173824,177976,1>>,
      <<177984,178205,1>>,<<178208,183969,1>>,<<183984,191456,1>>,
      <<194560,195101,1>>,<<196608,201546,1>>>>

\* str.isupper() of one character
UpperChars ==
    <<<<65,90,1>>,<<192,214,1>>,<<216,222,1>>,<<256,310,2>>,<<313,327,2>>,
      <<330,376,2>>,<<377,381,2>>,<<385,386,1>>,<<388,388,1>>,<<390,391,1>>,
      <<393,395,1>>,<<398,401,1>>,<<403,404,1>>,<<406,408,1>>,<<412,413,1>>,
      <<415,416,1>>,<<418,422,2>>,<<423,423,1>>,<<425,425,1>>,<<428,428,1>>,
      <<430,431,1>>,<<433,435,1>>,<<437,437,1>>,<<439,440,1>>,<<444,444,1>>,
      <<452,452,1>>,<<455,455,1>>,<<458,458,1>>,<<461,475,2>>,<<478,494,2>>,
      <<497,497,1>>,<<500,500,1>>,<<502,504,1>>,<<506,562,2>>,<<570,571,1>>,
      <<573,574,1>>,<<577,577,1>>,<<579,582,1>>,<<584,590,2>>,<<880,880,1>>,
      <<882,882,1>>,<<886,886,1>>,<<895,895,1>>,<<902,902,1>>,<<904,906,1>>,
      <<908,908,1>>,<<910,911,1>>,<<913,929,1>>,<<931,939,1>>,<<975,975,1>>,
      <<978,980,1>>,<<984,1006,2>>,<<1012,1012,1>>,<<1015,1015,1>>,
      <<1017,1018,1>>,<<1021,1071,1>>,<<1120,1152,2>>,<<1162,1216,2>>,
      <<1217,1229,2>>,<<1232,1326,2>>,<<1329,1366,1>>,<<4256,4293,1>>,
      <<4295,4295,1>>,<<4301,4301,1>>,<<5024,5109,1>>,<<7312,7354,1>>,
      <<7357,7359,1>>,<<7680,7828,2>>,<<7838,7934,2>>,<<7944,7951,1>>,
      <<7960,7965,1>>,<<7976,7983,1>>,<<7992,7999,1>>,<<8008,8013,1>>,
      <<8025,8031,2>>,<<8040,8047,1>>,<<8120,8123,1>>,<<8136,8139,1>>,
      <<8152,8155,1>>,<<8168,8172,1>>,<<8184,8187,1>>,<<8450,8450,1>>,
      <<8455,8455,1>>,<<8459,8461,1>>,<<8464,8466,1>>,<<8469,8469,1>>,
      <<8473,8477,1>>,<<8484,8490,2>>,<<8491,8493,1>>,<<8496,8499,1>>,
      <<8510,8511,1>>,<<8517,8517,1>>,<<8544,8559,1>>,<<8579,8579,1>>,
      <<9398,9423,1>>,<<11264,11311,1>>,<<11360,11360,1>>,<<11362,11364,1>>,
      <<11367,11373,2>>,<<11374,11376,1>>,<<11378,11378,1>>,<<11381,11381,1>>,
      <<11390,11392,1>>,<<11394,11490,2>>,<<11499,11499,1>>,<<11501,11501,1>>,
      <<11506,11506,1>>,<<42560,42604,2>>,<<42624,42650,2>>,<<42786,42798,2>>,
      <<42802,42862,2>>,<<42873,42877,2>>,<<42878,42886,2>>,<<42891,42891,1>>,
      <<42893,42893,1>>,<<42896,42896,1>>,<<42898,42898,1>>,<<42902,42922,2>>,
      <<42923,42926,1>>,<<42928,42932,1>>,<<42934,42948,2>>,<<42949,42951,1>>,
      <<42953,42953,1>>,<<42960,42960,1>>,<<42966,42966,1>>,<<42968,42968,1>>,
      <<42997,42997,1>>,<<65313,65338,1>>,<<66560,66599,1>>,<<66736,66771,1>>,
      <<66928,66938,1>>,<<66940,66954,1>>,<<66956,66962,1>>,<<66964,66965,1>>,
      <<68736,68786,1>>,<<71840,71871,1>>,<<93760,93791,1>>,
      <<119808,119833,1>>,<<119860,119885,1>>,<<119912,119937,1>>,
      <<119964,119964,1>>,<<119966,119967,1>>,<<119970,119970,1>>,
      <<119973,119974,1>>,<<119977,119980,1>>,<<119982,119989,1>>,
      <<120016,120041,1>>,<<120068,120069,1>>,<<120071,120074,1>>,
      <<120077,120084,1>>,<<120086,120092,1>>,<<120120,120121,1>>,
      <<120123,120126,1>>,<<120128,120132,1>>,<<120134,120134,1>>,
      <<120138,120144,1>>,<<120172,120197,1>>,<<120224,120249,1>>,
      <<120276,120301,1>>,<<120328,120353,1>>,<<120380,120405,1>>,
      <<120432,120457,1>>,<<120488,120512,1>>,<<120546,120570,1>>,
      <<120604,120628,1>>,<<120662,120686,1>>,<<120720,120744,1>>,
      <<120778,120778,1>>,<<125184,125217,1>>,<<127280,127305,1>>,
      <<127312,127337,1>>,<<127344,127369,1>>>>

\* str.lower() of one character, where it gives one other character: runs
\* <<first, last, step, delta>>, the image of c being c + delta.  (U+03A3 is
\* here with its image when it does not end a word.)
LowerRuns ==
    <<<<65,90,1,32>>,<<192,214,1,32>>,<<216,222,1,32>>,<<256,302,2,1>>,
      <<306,310,2,1>>,<<313,327,2,1>>,<<330,374,2,1>>,<<376,376,1,-121>>,
      <<377,381,2,1>>,<<385,385,1,210>>,<<386,388,2,1>>,<<390,390,1,206>>,
      <<391,391,1,1>>,<<393,394,1,205>>,<<395,395,1,1>>,<<398,398,1,79>>,
      <<399,399,1,202>>,<<400,400,1,203>>,<<401,401,1,1>>,<<403,403,1,205>>,
      <<404,404,1,207>>,<<406,406,1,211>>,<<407,407,1,209>>,<<408,408,1,1>>,
      <<412,412,1,211>>,<<413,413,1,213>>,<<415,415,1,214>>,<<416,420,2,1>>,
      <<422,422,1,218>>,<<423,423,1,1>>,<<425,425,1,218>>,<<428,428,1,1>>,
      <<430,430,1,218>>,<<431,431,1,1>>,<<433,434,1,217>>,<<435,437,2,1>>,
      <<439,439,1,219>>,<<440,440,1,1>>,<<444,444,1,1>>,<<452,452,1,2>>,
      <<453,453,1,1>>,<<455,455,1,2>>,<<456,456,1,1>>,<<458,458,1,2>>,
      <<459,475,2,1>>,<<478,494,2,1>>,<<497,497,1,2>>,<<498,500,2,1>>,
      <<502,502,1,-97>>,<<503,503,1,-56>>,<<504,542,2,1>>,<<544,544,1,-130>>,
      <<546,562,2,1>>,<<570,570,1,10795>>,<<571,571,1,1>>,<<573,573,1,-163>>,
      <<574,574,1,10792>>,<<577,577,1,1>>,<<579,579,1,-195>>,<<580,580,1,69>>,
      <<581,581,1,71>>,<<582,590,2,1>>,<<880,882,2,1>>,<<886,886,1,1>>,
      <<895,895,1,116>>,<<902,902,1,38>>,<<904,906,1,37>>,<<908,908,1,64>>,
      <<910,911,1,63>>,<<913,929,1,32>>,<<931,939,1,32>>,<<975,975,1,8>>,
      <<984,1006,2,1>>,<<1012,1012,1,-60>>,<<1015,1015,1,1>>,
      <<1017,1017,1,-7>>,<<1018,1018,1,1>>,<<1021,1023,1,-130>>,
      <<1024,1039,1,80>>,<<1040,1071,1,32>>,<<1120,1152,2,1>>,
      <<1162,1214,2,1>>,<<1216,1216,1,15>>,<<1217,1229,2,1>>,
      <<1232,1326,2,1>>,<<1329,1366,1,48>>,<<4256,4293,1,7264>>,
      <<4295,4295,1,7264>>,<<4301,4301,1,7264>>,<<5024,5103,1,38864>>,
      <<5104,5109,1,8>>,<<7312,7354,1,-3008>>,<<7357,7359,1,-3008>>,
      <<7680,7828,2,1>>,<<7838,7838,1,-7615>>,<<7840,7934,2,1>>,
      <<7944,7951,1,-8>>,<<7960,7965,1,-8>>,<<7976,7983,1,-8>>,
      <<7992,7999,1,-8>>,<<8008,8013,1,-8>>,<<8025,8031,2,-8>>,
      <<8040,8047,1,-8>>,<<8072,8079,1,-8>>,<<8088,8095,1,-8>>,
      <<8104,8111,1,-8>>,<<8120,8121,1,-8>>,<<8122,8123,1,-74>>,
      <<8124,8124,1,-9>>,<<8136,8139,1,-86>>,<<8140,8140,1,-9>>,
      <<8152,8153,1,-8>>,<<8154,8155,1,-100>>,<<8168,8169,1,-8>>,
      <<8170,8171,1,-112>>,<<8172,8172,1,-7>>,<<8184,8185,1,-128>>,
      <<8186,8187,1,-126>>,<<8188,8188,1,-9>>,<<8486,8486,1,-7517>>,
      <<8490,8490,1,-8383>>,<<8491,8491,1,-8262>>,<<8498,8498,1,28>>,
      <<8544,8559,1,16>>,<<8579,8579,1,1>>,<<9398,9423,1,26>>,
      <<11264,11311,1,48>>,<<11360,11360,1,1>>,<<11362,11362,1,-10743>>,
      <<11363,11363,1,-3814>>,<<11364,11364,1,-10727>>,<<11367,11371,2,1>>,
      <<11373,11373,1,-10780>>,<<11374,11374,1,-10749>>,
      <<11375,11375,1,-10783>>,<<11376,11376,1,-10782>>,<<11378,11378,1,1>>,
      <<11381,11381,1,1>>,<<11390,11391,1,-10815>>,<<11392,11490,2,1>>,
      <<11499,11501,2,1>>,<<11506,11506,1,1>>,<<42560,42604,2,1>>,
      <<42624,42650,2,1>>,<<42786,42798,2,1>>,<<42802,42862,2,1>>,
      <<42873,42875,2,1>>,<<42877,42877,1,-35332>>,<<42878,42886,2,1>>,
      <<42891,42891,1,1>>,<<42893,42893,1,-42280>>,<<42896,42898,2,1>>,
      <<42902,42920,2,1>>,<<42922,42922,1,-42308>>,<<42923,42923,1,-42319>>,
      <<42924,42924,1,-42315>>,<<42925,42925,1,-42305>>,
      <<42926,42926,1,-42308>>,<<42928,42928,1,-42258>>,
      <<42929,42929,1,-42282>>,<<42930,42930,1,-42261>>,<<42931,42931,1,928>>,
      <<42932,42946,2,1>>,<<42948,42948,1,-48>>,<<42949,42949,1,-42307>>,
      <<42950,42950,1,-35384>>,<<42951,42953,2,1>>,<<42960,42960,1,1>>,
      <<42966,42968,2,1>>,<<42997,42997,1,1>>,<<65313,65338,1,32>>,
      <<66560,66599,1,40>>,<<66736,66771,1,40>>,<<66928,66938,1,39>>,
      <<66940,66954,1,39>>,<<66956,66962,1,39>>,<<66964,66965,1,39>>,
      <<68736,68786,1,64>>,<<71840,71871,1,32>>,<<93760,93791,1,32>>,
      <<125184,125217,1,34>>>>

\* str.lower() of one character, where it gives more than one
LowerSpecial ==
    <<<<304,<<105,775>>>>>>

\* the characters str.lower() skips when it looks for the neighbours of a
\* capital sigma
CaseIgnorableChars ==
    <<<<39,39,1>>,<<46,46,1>>,<<58,58,1>>,<<94,94,1>>,<<96,96,1>>,
      <<168,168,1>>,<<173,173,1>>,<<175,175,1>>,<<180,180,1>>,<<183,184,1>>,
      <<688,879,1>>,<<884,885,1>>,<<890,890,1>>,<<900,901,1>>,<<903,903,1>>,
      <<1155,1161,1>>,<<1369,1369,1>>,<<1375,1375,1>>,<<1425,1469,1>>,
      <<1471,1471,1>>,<<1473,1474,1>>,<<1476,1477,1>>,<<1479,1479,1>>,
      <<1524,1524,1>>,<<1536,1541,1>>,<<1552,1562,1>>,<<1564,1564,1>>,
      <<1600,1600,1>>,<<1611,1631,1>>,<<1648,1648,1>>,<<1750,1757,1>>,
      <<1759,1768,1>>,<<1770,1773,1>>,<<1807,1807,1>>,<<1809,1809,1>>,
      <<1840,1866,1>>,<<1958,1968,1>>,<<2027,2037,1>>,<<2042,2042,1>>,
      <<2045,2045,1>>,<<2070,2093,1>>,<<2137,2139,1>>,<<2184,2184,1>>,
      <<2192,2193,1>>,<<2200,2207,1>>,<<2249,2306,1>>,<<2362,2362,1>>,
      <<2364,2364,1>>,<<2369,2376,1>>,<<2381,2381,1>>,<<2385,2391,1>>,
      <<2402,2403,1>>,<<2417,2417,1>>,<<2433,2433,1>>,<<2492,2492,1>>,
      <<2497,2500,1>>,<<2509,2509,1>>,<<2530,2531,1>>,<<2558,2558,1>>,
      <<2561,2562,1>>,<<2620,2620,1>>,<<2625,2626,1>>,<<2631,2632,1>>,
      <<2635,2637,1>>,<<2641,2641,1>>,<<2672,2673,1>>,<<2677,2677,1>>,
      <<2689,2690,1>>,<<2748,2748,1>>,<<2753,2757,1>>,<<2759,2760,1>>,
      <<2765,2765,1>>,<<2786,2787,1>>,<<2810,2815,1>>,<<2817,2817,1>>,
      <<2876,2876,1>>,<<2879,2879,1>>,<<2881,2884,1>>,<<2893,2893,1>>,
      <<2901,2902,1>>,<<2914,2915,1>>,<<2946,2946,1>>,<<3008,3008,1>>,
      <<3021,3021,1>>,<<3072,3072,1>>,<<3076,3076,1>>,<<3132,3132,1>>,
      <<3134,3136,1>>,<<3142,3144,1>>,<<3146,3149,1>>,<<3157,3158,1>>,
      <<3170,3171,1>>,<<3201,3201,1>>,<<3260,3260,1>>,<<3263,3263,1>>,
      <<3270,3270,1>>,<<3276,3277,1>>,<<3298,3299,1>>,<<3328,3329,1>>,
      <<3387,3388,1>>,<<3393,3396,1>>,<<3405,3405,1>>,<<3426,3427,1>>,
      <<3457,3457,1>>,<<3530,3530,1>>,<<3538,3540,1>>,<<3542,3542,1>>,
      <<3633,3633,1>>,<<3636,3642,1>>,<<3654,3662,1>>,<<3761,3761,1>>,
      <<3764,3772,1>>,<<3782,3782,1>>,<<3784,3789,1>>,<<3864,3865,1>>,
      <<3893,3897,2>>,<<3953,3966,1>>,<<3968,3972,1>>,<<3974,3975,1>>,
      <<3981,3991,1>>,<<3993,4028,1>>,<<4038,4038,1>>,<<4141,4144,1>>,
      <<4146,4151,1>>,<<4153,4154,1>>,<<4157,4158,1>>,<<4184,4185,1>>,
      <<4190,4192,1>>,<<4209,4212,1>>,<<4226,4226,1>>,<<4229,4230,1>>,
      <<4237,4237,1>>,<<4253,4253,1>>,<<4348,4348,1>>,<<4957,4959,1>>,
      <<5906,5908,1>>,<<5938,5939,1>>,<<5970,5971,1>>,<<6002,6003,1>>,
      <<6068,6069,1>>,<<6071,6077,1>>,<<6086,6086,1>>,<<6089,6099,1>>,
      <<6103,6103,1>>,<<6109,6109,1>>,<<6155,6159,1>>,<<6211,6211,1>>,
      <<6277,6278,1>>,<<6313,6313,1>>,<<6432,6434,1>>,<<6439,6440,1>>,
      <<6450,6450,1>>,<<6457,6459,1>>,<<6679,6680,1>>,<<6683,6683,1>>,
      <<6742,6742,1>>,<<6744,6750,1>>,<<6752,6752,1>>,<<6754,6754,1>>,
      <<6757,6764,1>>,<<6771,6780,1>>,<<6783,6783,1>>,<<6823,6823,1>>,
      <<6832,6862,1>>,<<6912,6915,1>>,<<6964,6964,1>>,<<6966,6970,1>>,
      <<6972,6972,1>>,<<6978,6978,1>>,<<7019,7027,1>>,<<7040,7041,1>>,
      <<7074,7077,1>>,<<7080,7081,1>>,<<7083,7085,1>>,<<7142,7142,1>>,
      <<7144,7145,1>>,<<7149,7149,1>>,<<7151,7153,1>>,<<7212,7219,1>>,
      <<7222,7223,1>>,<<7288,7293,1>>,<<7376,7378,1>>,<<7380,7392,1>>,
      <<7394,7400,1>>,<<7405,7405,1>>,<<7412,7412,1>>,<<7416,7417,1>>,
      <<7468,7530,1>>,<<7544,7544,1>>,<<7579,7679,1>>,<<8125,8125,1>>,
      <<8127,8129,1>>,<<8141,8143,1>>,<<8157,8159,1>>,<<8173,8175,1>>,
      <<8189,8190,1>>,<<8203,8207,1>>,<<8216,8217,1>>,<<8228,8228,1>>,
      <<8231,8231,1>>,<<8234,8238,1>>,<<8288,8292,1>>,<<8294,8303,1>>,
      <<8305,8305,1>>,<<8319,8319,1>>,<<8336,8348,1>>,<<8400,8432,1>>,
      <<11388,11389,1>>,<<11503,11505,1>>,<<11631,11631,1>>,<<11647,11647,1>>,
      <<11744,11775,1>>,<<11823,11823,1>>,<<12293,12293,1>>,<<12330,12333,1>>,
      <<12337,12341,1>>,<<12347,12347,1>>,<<12441,12446,1>>,<<12540,12542,1>>,
      <<40981,40981,1>>,<<42232,42237,1>>,<<42508,42508,1>>,<<42607,42610,1>>,
      <<42612,42621,1>>,<<42623,42623,1>>,<<42652,42655,1>>,<<42736,42737,1>>,
      <<42752,42785,1>>,<<42864,42864,1>>,<<42888,42890,1>>,<<42994,42996,1>>,
      <<43000,43001,1>>,<<43010,43010,1>>,<<43014,43014,1>>,<<43019,43019,1>>,
      <<43045,43046,1>>,<<43052,43052,1>>,<<43204,43205,1>>,<<43232,43249,1>>,
      <<43263,43263,1>>,<<43302,43309,1>>,<<43335,43345,1>>,<<43392,43394,1>>,
      <<43443,43443,1>>,<<43446,43449,1>>,<<43452,43453,1>>,<<43471,43471,1>>,
      <<43493,43494,1>>,<<43561,43566,1>>,<<43569,43570,1>>,<<43573,43574,1>>,
      <<43587,43587,1>>,<<43596,43596,1>>,<<43632,43632,1>>,<<43644,43644,1>>,
      <<43696,43696,1>>,<<43698,43700,1>>,<<43703,43704,1>>,<<43710,43711,1>>,
      <<43713,43713,1>>,<<43741,43741,1>>,<<43756,43757,1>>,<<43763,43764,1>>,
      <<43766,43766,1>>,<<43867,43871,1>>,<<43881,43883,1>>,<<44005,44005,1>>,
      <<44008,44008,1>>,<<44013,44013,1>>,<<64286,64286,1>>,<<64434,64450,1>>,
      <<65024,65039,1>>,<<65043,65043,1>>,<<65056,65071,1>>,<<65106,65106,1>>,
      <<65109,65109,1>>,<<65279,65279,1>>,<<65287,65287,1>>,<<65294,65294,1>>,
      <<65306,65306,1>>,<<65342,65342,1>>,<<65344,65344,1>>,<<65392,65392,1>>,
      <<65438,65439,1>>,<<65507,65507,1>>,<<65529,65531,1>>,<<66045,66045,1>>,
      <<66272,66272,1>>,<<66422,66426,1>>,<<67456,67461,1>>,<<67463,67504,1>>,
      <<67506,67514,1>>,<<68097,68099,1>>,<<68101,68102,1>>,<<68108,68111,1>>,
      <<68152,68154,1>>,<<68159,68159,1>>,<<68325,68326,1>>,<<68900,68903,1>>,
      <<69291,69292,1>>,<<69446,69456,1>>,<<69506,69509,1>>,<<69633,69633,1>>,
      <<69688,69702,1>>,<<69744,69744,1>>,<<69747,69748,1>>,<<69759,69761,1>>,
      <<69811,69814,1>>,<<69817,69818,1>>,<<69821,69821,1>>,<<69826,69826,1>>,
      <<69837,69837,1>>,<<69888,69890,1>>,<<69927,69931,1>>,<<69933,69940,1>>,
      <<70003,70003,1>>,<<70016,70017,1>>,<<70070,70078,1>>,<<70089,70092,1>>,
      <<70095,70095,1>>,<<70191,70193,1>>,<<70196,70196,1>>,<<70198,70199,1>>,
      <<70206,70206,1>>,<<70367,70367,1>>,<<70371,70378,1>>,<<70400,70401,1>>,
      <<70459,70460,1>>,<<70464,70464,1>>,<<70502,70508,1>>,<<70512,70516,1>>,
      <<70712,70719,1>>,<<70722,70724,1>>,<<70726,70726,1>>,<<70750,70750,1>>,
      <<70835,70840,1>>,<<70842,70842,1>>,<<70847,70848,1>>,<<70850,70851,1>>,
      <<71090,71093,1>>,<<71100,71101,1>>,<<71103,71104,1>>,<<71132,71133,1>>,
      <<71219,71226,1>>,<<71229,71229,1>>,<<71231,71232,1>>,<<71339,71339,1>>,
      <<71341,71341,1>>,<<71344,71349,1>>,<<71351,71351,1>>,<<71453,71455,1>>,
      <<71458,71461,1>>,<<71463,71467,1>>,<<71727,71735,1>>,<<71737,71738,1>>,
      <<71995,71996,1>>,<<71998,71998,1>>,<<72003,72003,1>>,<<72148,72151,1>>,
      <<72154,72155,1>>,<<72160,72160,1>>,<<72193,72202,1>>,<<72243,72248,1>>,
      <<72251,72254,1>>,<<72263,72263,1>>,<<72273,72278,1>>,<<72281,72283,1>>,
      <<72330,72342,1>>,<<72344,72345,1>>,<<72752,72758,1>>,<<72760,72765,1>>,
      <<72767,72767,1>>,<<72850,72871,1>>,<<72874,72880,1>>,<<72882,72883,1>>,
      <<72885,72886,1>>,<<73009,73014,1>>,<<73018,73018,1>>,<<73020,73021,1>>,
      <<73023,73029,1>>,<<73031,73031,1>>,<<73104,73105,1>>,<<73109,73109,1>>,
      <<73111,73111,1>>,<<73459,73460,1>>,<<78896,78904,1>>,<<92912,92916,1>>,
      <<92976,92982,1>>,<<92992,92995,1>>,<<94031,94031,1>>,<<94095,94111,1>>,
      <<94176,94177,1>>,<<94179,94180,1>>,<<110576,110579,1>>,
      <<110581,110587,1>>,<<110589,110590,1>>,<<113821,113822,1>>,
      <<113824,113827,1>>,<<118528,118573,1>>,<<118576,118598,1>>,
      <<119143,119145,1>>,<<119155,119170,1>>,<<119173,119179,1>>,
      <<119210,119213,1>>,<<119362,119364,1>>,<<121344,121398,1>>,
      <<121403,121452,1>>,<<121461,121461,1>>,<<121476,121476,1>>,
      <<121499,121503,1>>,<<121505,121519,1>>,<<122880,122886,1>>,
      <<122888,122904,1>>,<<122907,122913,1>>,<<122915,122916,1>>,
      <<122918,122922,1>>,<<123184,123197,1>>,<<123566,123566,1>>,
      <<123628,123631,1>>,<<125136,125142,1>>,<<125252,125259,1>>,
      <<127995,127999,1>>,<<917505,917505,1>>,<<917536,917631,1>>,
      <<917760,917999,1>>>>

\* the cased characters among those it does not skip
CasedChars ==
    <<<<65,90,1>>,<<97,122,1>>,<<170,170,1>>,<<181,181,1>>,<<186,186,1>>,
      <<192,214,1>>,<<216,246,1>>,<<248,442,1>>,<<444,447,1>>,<<452,659,1>>,
      <<661,687,1>>,<<880,883,1>>,<<886,887,1>>,<<891,893,1>>,<<895,895,1>>,
      <<902,902,1>>,<<904,906,1>>,<<908,908,1>>,<<910,929,1>>,<<931,1013,1>>,
      <<1015,1153,1>>,<<1162,1327,1>>,<<1329,1366,1>>,<<1376,1416,1>>,
      <<4256,4293,1>>,<<4295,4295,1>>,<<4301,4301,1>>,<<4304,4346,1>>,
      <<4349,4351,1>>,<<5024,5109,1>>,<<5112,5117,1>>,<<7296,7304,1>>,
      <<7312,7354,1>>,<<7357,7359,1>>,<<7424,7467,1>>,<<7531,7543,1>>,
      <<7545,7578,1>>,<<7680,7957,1>>,<<7960,7965,1>>,<<7968,8005,1>>,
      <<8008,8013,1>>,<<8016,8023,1>>,<<8025,8031,2>>,<<8032,8061,1>>,
      <<8064,8116,1>>,<<8118,8124,1>>,<<8126,8126,1>>,<<8130,8132,1>>,
      <<8134,8140,1>>,<<8144,8147,1>>,<<8150,8155,1>>,<<8160,8172,1>>,
      <<8178,8180,1>>,<<8182,8188,1>>,<<8450,8450,1>>,<<8455,8455,1>>,
      <<8458,8467,1>>,<<8469,8469,1>>,<<8473,8477,1>>,<<8484,8490,2>>,
      <<8491,8493,1>>,<<8495,8500,1>>,<<8505,8505,1>>,<<8508,8511,1>>,
      <<8517,8521,1>>,<<8526,8526,1>>,<<8544,8575,1>>,<<8579,8580,1>>,
      <<9398,9449,1>>,<<11264,11387,1>>,<<11390,11492,1>>,<<11499,11502,1>>,
      <<11506,11507,1>>,<<11520,11557,1>>,<<11559,11559,1>>,<<11565,11565,1>>,
      <<42560,42605,1>>,<<42624,42651,1>>,<<42786,42863,1>>,<<42865,42887,1>>,
      <<42891,42894,1>>,<<42896,42954,1>>,<<42960,42961,1>>,<<42963,42963,1>>,
      <<42965,42969,1>>,<<42997,42998,1>>,<<43002,43002,1>>,<<43824,43866,1>>,
      <<43872,43880,1>>,<<43888,43967,1>>,<<64256,64262,1>>,<<64275,64279,1>>,
      <<65313,65338,1>>,<<65345,65370,1>>,<<66560,66639,1>>,<<66736,66771,1>>,
      <<66776,66811,1>>,<<66928,66938,1>>,<<66940,66954,1>>,<<66956,66962,1>>,
      <<66964,66965,1>>,<<66967,66977,1>>,<<66979,66993,1>>,<<66995,67001,1>>,
      <<67003,67004,1>>,<<68736,68786,1>>,<<68800,68850,1>>,<<71840,71903,1>>,
      <<93760,93823,1>>,<<119808,119892,1>>,<<119894,119964,1>>,
      <<119966,119967,1>>,<<119970,119970,1>>,<<119973,119974,1>>,
      <<119977,119980,1>>,<<119982,119993,1>>,<<119995,119995,1>>,
      <<119997,120003,1>>,<<120005,120069,1>>,<<120071,120074,1>>,
      <<120077,120084,1>>,<<120086,120092,1>>,<<120094,120121,1>>,
      <<120123,120126,1>>,<<120128,120132,1>>,<<120134,120134,1>>,
      <<120138,120144,1>>,<<120146,120485,1>>,<<120488,120512,1>>,
      <<120514,120538,1>>,<<120540,120570,1>>,<<120572,120596,1>>,
      <<120598,120628,1>>,<<120630,120654,1>>,<<120656,120686,1>>,
      <<120688,120712,1>>,<<120714,120744,1>>,<<120746,120770,1>>,
      <<120772,120779,1>>,<<122624,122633,1>>,<<122635,122654,1>>,
      <<125184,125251,1>>,<<127280,127305,1>>,<<127312,127337,1>>,
      <<127344,127369,1>>>>

IsUpper(c) == InRuns(c, UpperChars)

IsDigit(c) == InRuns(c, DigitChars)

IsAlnum(c) == InRuns(c, AlnumChars)

\* \w of the re module on a str pattern
IsWord(c) == IsAlnum(c) \/ c = Ord["_"]

IsSpace(c) == InRuns(c, SpaceChars)

\* str.lower() of one character: the characters it gives
LowerChar(c) ==
    IF \E k \in DOMAIN LowerSpecial : LowerSpecial[k][1] = c
    THEN LowerSpecial[CHOOSE k \in DOMAIN LowerSpecial : LowerSpecial[k][1] = c][2]
    ELSE IF InRuns(c, LowerRuns) THEN <<c + LowerRuns[RunOf(c, LowerRuns)][4]>>
    ELSE <<c>>

\* U+03A3, U+03C3 and U+03C2
CapitalSigma == 931
SmallSigma == 963
FinalSmallSigma == 962

\* whether the capital sigma at s[i] ends a word: the nearest character before
\* it that is not skipped is cased, and the nearest one after it is not
FinalSigma(s, i) ==
    LET before == {j \in 1..(i - 1) : ~InRuns(s[j], CaseIgnorableChars)}
        after == {j \in (i + 1)..Len(s) : ~InRuns(s[j], CaseIgnorableChars)}
    IN  /\ before # {}
        /\ InRuns(s[CHOOSE j \in before : \A k \in before : k <= j], CasedChars)
        /\ \/ after = {}
           \/ ~InRuns(s[CHOOSE j \in after : \A k \in after : j <= k], CasedChars)

\* str.lower()
Lower(s) ==
    Concat([i \in DOMAIN s |->
               IF s[i] = CapitalSigma
               THEN <<IF FinalSigma(s, i) THEN FinalSmallSigma ELSE SmallSigma>>
               ELSE LowerChar(s[i])])

\* str.strip()
Strip(s) ==
    LET keep == {i \in DOMAIN s : ~IsSpace(s[i])}
    IN  IF keep = {} THEN <<>>
        ELSE LET lo == CHOOSE i \in keep : \A j \in keep : i <= j
                 hi == CHOOSE i \in keep : \A j \in keep : j <= i
             IN  SubSeq(s, lo, hi)

\* str.split('\n'): the pieces between the line feeds, empty pieces included
RECURSIVE Split(_)
Split(s) ==
    LET nl == {i \in DOMAIN s : s[i] = Ord["\n"]}
    IN  IF nl = {} THEN <<s>>
        ELSE LET k == CHOOSE i \in nl : \A j \in nl : i <= j
             IN  <<SubSeq(s, 1, k - 1)>> \o Split(SubSeq(s, k + 1, Len(s)))

\* str.startswith(prefix)
StartsWith(s, prefix) ==
    /\ Len(prefix) <= Len(s)
    /\ SubSeq(s, 1, Len(prefix)) = prefix

\* str.endswith(suffix)
EndsWith(s, suffix) ==
    /\ Len(suffix) <= Len(s)
    /\ SubSeq(s, Len(s) - Len(suffix) + 1, Len(s)) = suffix

\* str.replace(ch, '') for a one-character ch
RemoveChar(s, ch) == SelectSeq(s, LAMBDA c : c # ch)

\* str.isalnum(): non-empty and every character alphanumeric
IsAlnumStr(s) == s # <<>> /\ \A i \in DOMAIN s : IsAlnum(s[i])

----------------------------------------------------------------------------
(* The classification tables of CommitValidator                            *)

feat == Codes(<<"f","e","a","t">>)
fix == Codes(<<"f","i","x">>)
perf == Codes(<<"p","e","r","f">>)
security == Codes(<<"s","e","c","u","r","i","t","y">>)
breaking == Codes(<<"b","r","e","a","k","i","n","g">>)
docs == Codes(<<"d","o","c","s">>)
test == Codes(<<"t","e","s","t">>)
ci == Codes(<<"c","i">>)
chore == Codes(<<"c","h","o","r","e">>)
refactor == Codes(<<"r","e","f","a","c","t","o","r">>)
style == Codes(<<"s","t","y","l","e">>)
build == Codes(<<"b","u","i","l","d">>)
revert == Codes(<<"r","e","v","e","r","t">>)

\* (variant: docs filed with the types that require an issue id)
UserFacingTypesWithDocs == {feat, fix, perf, security, breaking, docs}

USER_FACING_TYPES == {feat, fix, perf, security, breaking}

DEVELOPMENT_TYPES == {docs, test, ci, chore, refactor, style, build, revert}

ALL_TYPES == USER_FACING_TYPES \cup DEVELOPMENT_TYPES

JiraPrefix == Codes(<<"S","3","C","S","I","-">>)

\* (variant: the pattern without its \d+)
SearchJiraNoDigit(s) ==
    \E i \in DOMAIN s :
        /\ i + Len(JiraPrefix) - 1 <= Len(s)
        /\ SubSeq(s, i, i + Len(JiraPrefix) - 1) = JiraPrefix

\* re.search(JIRA_PATTERN, s): some S3CSI- followed by a digit
SearchJira(s) ==
    \E i \in DOMAIN s :
        /\ i + Len(JiraPrefix) <= Len(s)
        /\ SubSeq(s, i, i + Len(JiraPrefix) - 1) = JiraPrefix
        /\ IsDigit(s[i + Len(JiraPrefix)])

\* re.search(GITHUB_ISSUE_PATTERN, s): some # followed by a digit
SearchGithubIssue(s) ==
    \E i \in DOMAIN s : i + 1 <= Len(s) /\ s[i] = Ord["#"] /\ IsDigit(s[i + 1])

\* (variant: the pattern without its anchors)
MatchExactJiraUnanchored(s) == SearchJira(s)

\* re.match(r'^S3CSI-\d+$', s); $ also matches before one final line feed
MatchExactJira(s) ==
    LET body == IF s # <<>> /\ s[Len(s)] = Ord["\n"] THEN SubSeq(s, 1, Len(s) - 1) ELSE s
    IN  /\ StartsWith(body, JiraPrefix)
        /\ Len(body) > Len(JiraPrefix)
        /\ \A i \in (Len(JiraPrefix) + 1)..Len(body) : IsDigit(body[i])

NoMatch == [matched |-> FALSE, type |-> <<>>, scope |-> <<>>, description |-> <<>>]

\* COMMIT_PATTERN.match(line):  ^(\w+)(?:\(([^)]+)\))?: (.+)$
\* The type is the longest run of word characters (what follows must be "("
\* or ":"), the scope runs to the first ")", and the description is the rest
\* of the line.  A group that did not take part is the empty sequence.
CommitPatternMatch(line) ==
    LET nonword == {i \in DOMAIN line : ~IsWord(line[i])}
        n == IF nonword = {} THEN Len(line)
             ELSE (CHOOSE i \in nonword : \A j \in nonword : i <= j) - 1
        p == n + 1
        closes == {i \in DOMAIN line : i > p /\ line[i] = Ord[")"]}
        q == IF closes = {} THEN 0 ELSE CHOOSE i \in closes : \A j \in closes : i <= j
        hasScope == p <= Len(line) /\ line[p] = Ord["("] /\ q > p + 1
        after == IF hasScope THEN q + 1 ELSE p
        rest == SubSeq(line, after + 2, Len(line))
        desc == IF rest # <<>> /\ rest[Len(rest)] = Ord["\n"]
                THEN SubSeq(rest, 1, Len(rest) - 1) ELSE rest
    IN  IF /\ n >= 1
           /\ after + 1 <= Len(line)
           /\ line[after] = Ord[":"]
           /\ line[after + 1] = Ord[" "]
           /\ desc # <<>>
           /\ \A i \in DOMAIN desc : desc[i] # Ord["\n"]
        THEN [matched |-> TRUE,
              type |-> SubSeq(line, 1, n),
              scope |-> IF hasScope THEN SubSeq(line, p + 1, q - 1) ELSE <<>>,
              description |-> desc]
        ELSE NoMatch

----------------------------------------------------------------------------
(* The entries of the errors and warnings lists.  An entry is the fixed    *)
(* text of the f-string (named by what it says) and the value it           *)
(* interpolates.                                                           *)

ErrEmpty == [text |-> "Commit message cannot be empty (ignoring template comments)",
             arg |-> <<>>]

ErrFormat(subject_line) ==
    [text |-> "Invalid commit format. Expected: type(scope): description", arg |-> subject_line]

ErrType(commit_type) == [text |-> "Invalid commit type", arg |-> commit_type]

ErrDescShort == [text |-> "Description must be at least 10 characters long", arg |-> <<>>]

WarnDescLong ==
    [text |-> "Description should be 72 characters or less for better readability",
     arg |-> <<>>]

ErrRequiresIssueId(commit_type) ==
    [text |-> "User-facing commit type requires an issue ID", arg |-> commit_type]

ErrJiraFormat(scope) == [text |-> "Invalid JIRA issue format in scope", arg |-> scope]

WarnScope(scope) ==
    [text |-> "Scope doesn't look like an issue ID or component name", arg |-> scope]

WarnLowercase == [text |-> "Description should start with lowercase letter", arg |-> <<>>]

WarnPeriod == [text |-> "Description should not end with a period", arg |-> <<>>]

WarnImperative == [text |-> "Use imperative mood", arg |-> <<>>]

MinDescriptionLen == 10

MaxDescriptionLen == 72

----------------------------------------------------------------------------
(* CommitValidator.  self is the record of the instance's two attributes;  *)
(* each method returns the attributes as it leaves them.                   *)

PastTenseWords == << Codes(<<"a","d","d","e","d">>), Codes(<<"f","i","x","e","d">>),
                     Codes(<<"u","p","d","a","t","e","d">>), Codes(<<"c","h","a","n","g","e","d">>) >>

\* CommitValidator.__init__
NewValidator == [errors |-> <<>>, warnings |-> <<>>]

\* (variant: the lists of the previous call kept)
ResetListsKeep(self) == self

\* lines 53-54: the attributes are bound to new empty lists
ResetLists(self) == [errors |-> <<>>, warnings |-> <<>>]

\* (variant: comment lines kept)
ContentLinesKeepComments(message) ==
    SelectSeq(Split(Strip(message)), LAMBDA line : Strip(line) # <<>>)

\* line 57: the lines of the stripped message that are neither blank nor comments
ContentLines(message) ==
    SelectSeq(Split(Strip(message)),
              LAMBDA line : Strip(line) # <<>> /\ ~StartsWith(Strip(line), Codes(<<"#">>)))

\* CommitValidator._validate_issue_id
ValidateIssueId(self, commit_type, scope, description, full_message) ==
    LET has_jira_id == IF scope # <<>> THEN SearchJira(scope) ELSE FALSE
        has_github_issue == SearchGithubIssue(full_message)
        has_issue_id == has_jira_id \/ has_github_issue
    IN  IF commit_type \in USER_FACING_TYPES
        THEN IF ~has_issue_id
             THEN [self EXCEPT !.errors = Append(self.errors, ErrRequiresIssueId(commit_type))]
             ELSE IF has_jira_id /\ ~MatchExactJira(scope)
                  THEN [self EXCEPT !.errors = Append(self.errors, ErrJiraFormat(scope))]
                  ELSE self
        ELSE IF commit_type \in DEVELOPMENT_TYPES
             THEN IF /\ scope # <<>>
                     /\ ~(has_jira_id \/ IsAlnumStr(RemoveChar(RemoveChar(scope, Ord["-"]), Ord["_"])))
                  THEN [self EXCEPT !.warnings = Append(self.warnings, WarnScope(scope))]
                  ELSE self
             ELSE self

\* CommitValidator._validate_description_style
ValidateDescriptionStyle(self, description) ==
    LET w1 == IF description # <<>> /\ IsUpper(description[1])
              THEN Append(self.warnings, WarnLowercase) ELSE self.warnings
        w2 == IF EndsWith(description, Codes(<<".">>)) THEN Append(w1, WarnPeriod) ELSE w1
        w3 == IF \E i \in DOMAIN PastTenseWords :
                     StartsWith(Lower(description), PastTenseWords[i])
              THEN Append(w2, WarnImperative) ELSE w2
    IN  [self EXCEPT !.warnings = w3]

\* (variant: the short description filed as a warning)
ValidateDescriptionLengthAsWarning(self, description) ==
    LET w1 == IF Len(description) < MinDescriptionLen
              THEN Append(self.warnings, ErrDescShort) ELSE self.warnings
        w2 == IF Len(description) > MaxDescriptionLen
              THEN Append(w1, WarnDescLong) ELSE w1
    IN  [errors |-> self.errors, warnings |-> w2]

\* lines 89-94: the two length checks
ValidateDescriptionLength(self, description) ==
    LET e == IF Len(description) < MinDescriptionLen
             THEN Append(self.errors, ErrDescShort) ELSE self.errors
        w == IF Len(description) > MaxDescriptionLen
             THEN Append(self.warnings, WarnDescLong) ELSE self.warnings
    IN  [errors |-> e, warnings |-> w]

Result(is_valid, self) ==
    [valid |-> is_valid, errors |-> self.errors, warnings |-> self.warnings]

\* line 102: valid when no error was collected
Accumulated(self) == Result(Len(self.errors) = 0, self)

\* lines 81-102: the type gate and the checks that follow the gates
ValidateParsed(s0, commit_type, scope, description, message) ==
    IF commit_type \notin ALL_TYPES
    THEN Result(FALSE, [s0 EXCEPT !.errors = Append(s0.errors, ErrType(commit_type))])
    ELSE Accumulated(
             ValidateDescriptionStyle(
                 ValidateIssueId(ValidateDescriptionLength(s0, description),
                                 commit_type, scope, description, message),
                 description))

\* lines 64-79: the format gate, and the groups of the match
ValidateSubject(s0, subject_line, match, message) ==
    IF ~match.matched
    THEN Result(FALSE, [s0 EXCEPT !.errors = Append(s0.errors, ErrFormat(subject_line))])
    ELSE ValidateParsed(s0, Lower(match.type), match.scope, match.description, message)

\* lines 58-62: the empty gate
ValidateLines(s0, lines, message) ==
    IF lines = <<>>
    THEN Result(FALSE, [s0 EXCEPT !.errors = Append(s0.errors, ErrEmpty)])
    ELSE ValidateSubject(s0, lines[1], CommitPatternMatch(lines[1]), message)

\* CommitValidator.validate_commit_message: the tuple it returns
validate_commit_message(self, message) ==
    ValidateLines(ResetLists(self), ContentLines(message), message)

----------------------------------------------------------------------------
(* The inputs.  A message is rendered from its parts: the comment and      *)
(* blank lines in front, white space before the subject, the type token,   *)
(* the parenthesised scope, the separator, the description and what        *)
(* follows the subject line.                                               *)

MaxPrefixLines == 2

\* Python's None where a str is expected (no str holds a negative code point)
None == <<-1>>

TypeFix == Codes(<<"F","i","x">>)
TypeWip == Codes(<<"w","i","p">>)

TypeTokens == ALL_TYPES \cup {TypeFix, TypeWip}

CoreTypeTokens == {feat, docs, TypeFix, TypeWip}

ScopeJira == Codes(<<"(","S","3","C","S","I","-","1","2","3",")">>)
ScopeJiraInside == Codes(<<"(","x","S","3","C","S","I","-","5",")">>)
ScopeJiraNoDigits == Codes(<<"(","S","3","C","S","I","-",")">>)
ScopeDeps == Codes(<<"(","d","e","p","s",")">>)
ScopeComponent == Codes(<<"(","m","y","-","c","o","m","p","_","1",")">>)
ScopeRandom == Codes(<<"(","r","a","n","d","o","m","!","!",")">>)
ScopeGithub == Codes(<<"(","#","7",")">>)
ScopeEmpty == Codes(<<"(",")">>)

ScopeTokens == {<<>>, ScopeJira, ScopeJiraInside, ScopeJiraNoDigits, ScopeDeps,
                ScopeComponent, ScopeRandom, ScopeGithub, ScopeEmpty}

CoreScopeTokens == {<<>>, ScopeJira, ScopeRandom}

SepColonSpace == Codes(<<":"," ">>)
SepColon == Codes(<<":">>)

Separators == {SepColonSpace, SepColon}

DescEndpoint == Codes(<<"a","d","d"," ","c","u","s","t","o","m"," ","S","3"," ","e","n","d","p","o","i","n","t"," ","s","u","p","p","o","r","t">>)
DescX == Codes(<<"x">>)
DescBumpDeps == Codes(<<"b","u","m","p"," ","d","e","p","s">>)
DescAdded == Codes(<<"A","d","d","e","d"," ","n","e","w"," ","r","e","t","r","y"," ","l","o","g","i","c",".">>)
DescGithub == Codes(<<"f","i","x"," ","c","r","a","s","h"," ","#","1","2"," ","n","o","w">>)
DescMin == [i \in 1..MinDescriptionLen |-> Ord["b"]]
DescMax == [i \in 1..MaxDescriptionLen |-> Ord["a"]]
DescOverMax == [i \in 1..(MaxDescriptionLen + 1) |-> Ord["a"]]

Descriptions == {DescEndpoint, DescX, DescBumpDeps, DescAdded, DescGithub,
                 DescMin, DescMax, DescOverMax}

CoreDescriptions == {DescEndpoint, DescBumpDeps, DescAdded}

FooterCloses == Codes(<<"\n","\n","C","l","o","s","e","s"," ","#","1","2","3">>)
FooterBody == Codes(<<"\n","#"," ","t","m","p","l","\n","b","o","d","y"," ","t","e","x","t">>)

Footers == {<<>>, FooterCloses, FooterBody}

LineComment == Codes(<<"#"," ","t","m","p","l">>)
LineBlank == Codes(<<" ">>)
LineHashNumber == Codes(<<"#","1","2">>)

PrefixLineKinds == {LineComment, LineBlank, LineHashNumber}

\* every run of at most n comment or blank lines, each ended by a line feed
CommentBlocks(n) ==
    {Concat([i \in DOMAIN ls |-> ls[i] \o Codes(<<"\n">>)]) :
        ls \in UNION {[1..k -> PrefixLineKinds] : k \in 0..n}}

LeadingSpaces == {<<>>, Codes(<<" ">>)}

Parts(prefixes, leads, types, scopes, seps, descs, footers) ==
    [prefix : prefixes, lead : leads, type : types, scope : scopes, sep : seps,
     desc : descs, footer : footers]

\* every subject line of the grammar's parts, with and without a footer
SubjectInputs ==
    Parts({<<>>}, {<<>>}, TypeTokens, ScopeTokens, Separators, Descriptions, Footers)

\* subjects behind comment and blank lines, possibly indented
PrefixedInputs ==
    Parts(CommentBlocks(MaxPrefixLines), LeadingSpaces, CoreTypeTokens, CoreScopeTokens,
          {SepColonSpace}, CoreDescriptions, {<<>>, FooterCloses})

\* messages of comment and blank lines alone, the empty message among them
CommentOnlyInputs ==
    Parts(CommentBlocks(MaxPrefixLines), LeadingSpaces, {<<>>}, {<<>>}, {<<>>}, {<<>>}, {<<>>})

\* types of non-ASCII word characters: "féat"; "breaKing" with the Kelvin sign
\* U+212A, which lower() turns into k; "fİx" with U+0130, which lower() turns
\* into two characters; "FIXΣ", whose lower-casing ends in a final sigma
TypeFeatAccent == <<102, 233, 97, 116>>
TypeBreakingKelvin == <<98, 114, 101, 97, 8490, 105, 110, 103>>
TypeFixDotted == <<102, 304, 120>>
TypeFixSigma == <<70, 73, 88, 931>>

\* scopes: "(été)"; "(S3CSI-٣)" with the Arabic-Indic digit U+0663; "(Ⓐ)" with
\* the circled letter U+24B6, which is upper case and not alphanumeric
ScopeAccent == <<40, 233, 116, 233, 41>>
ScopeJiraArabicDigit == Codes(<<"(","S","3","C","S","I","-">>) \o <<1635, 41>>
ScopeCircled == <<40, 9398, 41>>

\* "École normale ouverte", and "fix crash #３ now" with the fullwidth digit U+FF13
DescEcole == <<201>> \o Codes(<<"c","o","l","e"," ","n","o","r","m","a","l","e"," ","o","u","v","e","r","t","e">>)
DescGithubFullwidthDigit == Codes(<<"f","i","x"," ","c","r","a","s","h"," ","#">>) \o <<65299>> \o Codes(<<" ","n","o","w">>)

\* a line of one vertical tab (U+000B), and a comment line behind a line
\* separator (U+2028)
LineVerticalTab == <<11>>
LineSeparatorComment == <<8232>> \o Codes(<<"#"," ","t","m","p","l">>)

\* an ideographic space (U+3000) before the subject
LeadIdeographicSpace == <<12288>>

\* subjects of characters beyond ASCII, behind white space beyond ASCII
UnicodeInputs ==
    Parts({<<>>, LineVerticalTab \o Codes(<<"\n">>), LineSeparatorComment \o Codes(<<"\n">>)},
          {<<>>, LeadIdeographicSpace},
          {feat, docs, TypeFeatAccent, TypeBreakingKelvin, TypeFixDotted, TypeFixSigma},
          {<<>>, ScopeAccent, ScopeJiraArabicDigit, ScopeCircled},
          {SepColonSpace},
          {DescEndpoint, DescEcole, DescGithubFullwidthDigit},
          {<<>>})

Inputs == SubjectInputs \cup PrefixedInputs \cup CommentOnlyInputs \cup UnicodeInputs

Render(p) == p.prefix \o p.lead \o p.type \o p.scope \o p.sep \o p.desc \o p.footer

----------------------------------------------------------------------------
(* The texts main() and the callers of one validator instance are given    *)

TextEmpty == <<>>
TextValid == feat \o ScopeJira \o SepColonSpace \o DescEndpoint
TextWarn == TypeFix \o ScopeJira \o SepColonSpace \o DescAdded
TextInvalid == feat \o SepColonSpace \o DescEndpoint
TextChore == chore \o ScopeRandom \o SepColonSpace \o DescBumpDeps
TextDocs == docs \o SepColonSpace \o DescEndpoint
TextScopeWarn == docs \o ScopeRandom \o SepColonSpace \o DescEndpoint

MessageTexts == {TextEmpty, TextValid, TextWarn, TextInvalid, TextChore, TextDocs}

FileTexts == {TextValid, TextInvalid, TextScopeWarn}

StdinTexts == {TextEmpty, TextDocs, TextWarn}

CallTexts == {TextEmpty, TextValid, TextWarn, TextInvalid, TextChore}

CommitFilePath == Codes(<<"C","O","M","M","I","T","_","E","D","I","T","M","S","G">>)

FileStates ==
    {[status |-> "FileNotFoundError", content |-> <<>>],
     [status |-> "OSError", content |-> <<>>]}
    \cup {[status |-> "ok", content |-> t] : t \in FileTexts}

MaxCalls == 3

----------------------------------------------------------------------------
VARIABLES
    input,            \* the parts of the message handed to the validator
    result,           \* the tuple validate_commit_message returned for it, once it has
    pc,               \* where main() stands
    args,             \* argparse's namespace: message, commit_file, strict
    file,             \* the file commit_file names: readable with a content, or not
    stdin,            \* the text on standard input
    commit_message,   \* main's local
    verdict,          \* main's (is_valid, errors, warnings), once assigned
    exit_code,        \* the status main exited with, once it has
    stdout,           \* what main printed
    file_opened,      \* open(args.commit_file) was called
    stdin_read,       \* sys.stdin.read() was called
    validator_calls,  \* how often main called validate_commit_message
    validator,        \* a long-lived instance: which list objects its attributes name
    heap,             \* the list objects, by address
    returned          \* the tuples that instance returned, in order

vars == <<input, result, pc, args, file, stdin, commit_message, verdict, exit_code,
          stdout, file_opened, stdin_read, validator_calls, validator, heap, returned>>

validateVars == <<input, result>>

mainVars == <<pc, args, file, stdin, commit_message, verdict, exit_code, stdout,
              file_opened, stdin_read, validator_calls>>

callVars == <<validator, heap, returned>>

\* the truth value Python gives an optional str
Truthy(x) == x # None /\ x # <<>>

NoInput ==
    [prefix |-> <<>>, lead |-> <<>>, type |-> <<>>, scope |-> <<>>, sep |-> <<>>,
     desc |-> <<>>, footer |-> <<>>]

NoArgs == [message |-> None, commit_file |-> None, strict |-> FALSE]

NoFile == [status |-> "FileNotFoundError", content |-> <<>>]

IdleValidate == input = NoInput /\ result = <<>>

IdleMain ==
    /\ pc = "idle"
    /\ args = NoArgs
    /\ file = NoFile
    /\ stdin = <<>>
    /\ commit_message = None
    /\ verdict = <<>>
    /\ exit_code = <<>>
    /\ stdout = <<>>
    /\ file_opened = FALSE
    /\ stdin_read = FALSE
    /\ validator_calls = 0

\* a CommitValidator just constructed: two new empty lists
IdleCalls ==
    /\ validator = [errors |-> 1, warnings |-> 2]
    /\ heap = << <<>>, <<>> >>
    /\ returned = <<>>

----------------------------------------------------------------------------
(* One call of validate_commit_message on a new validator                  *)

Init ==
    /\ input \in Inputs
    /\ result = <<>>
    /\ IdleMain
    /\ IdleCalls

Validate ==
    /\ result = <<>>
    /\ result' = <<validate_commit_message(NewValidator, Render(input))>>
    /\ UNCHANGED <<input, mainVars, callVars>>

Next == Validate

Spec == Init /\ [][Next]_vars

----------------------------------------------------------------------------
(* main()                                                                  *)

MainInit ==
    /\ IdleValidate
    /\ IdleCalls
    /\ pc = "start"
    /\ args \in [message : {None} \cup MessageTexts,
                 commit_file : {None, <<>>, CommitFilePath},
                 strict : BOOLEAN]
    /\ file \in FileStates
    /\ stdin \in StdinTexts
    /\ commit_message = None
    /\ verdict = <<>>
    /\ exit_code = <<>>
    /\ stdout = <<>>
    /\ file_opened = FALSE
    /\ stdin_read = FALSE
    /\ validator_calls = 0

\* (variant: a failed open read as an empty message)
FileOutcomeSwallowed(f) == [raised |-> FALSE, text |-> f.content]

\* lines 161-163: what open() and read() give for the file
FileOutcome(f) == [raised |-> f.status # "ok", text |-> f.content]

\* (variant: --strict ignored)
ExitCodeIgnoringStrict(is_valid, warnings, strict) == IF ~is_valid THEN 1 ELSE 0

\* lines 197-206
ExitCode(is_valid, warnings, strict) ==
    IF ~is_valid \/ (strict /\ warnings # <<>>) THEN 1 ELSE 0

\* lines 179-203: the banners and entries printed for a verdict
Report(is_valid, errors, warnings, strict) ==
    (IF errors # <<>> THEN <<"Commit message validation failed:">> \o errors \o <<"">>
     ELSE <<>>)
    \o (IF warnings # <<>> THEN <<"Commit message warnings:">> \o warnings \o <<"">>
        ELSE <<>>)
    \o (IF is_valid /\ warnings = <<>> THEN <<"Commit message is valid!">>
        ELSE IF is_valid THEN <<"Commit message is valid (with warnings)">>
        ELSE <<>>)
    \o (IF ExitCode(is_valid, warnings, strict) = 1
        THEN <<"Conventional Commit Examples:">> ELSE <<>>)

\* lines 158-159
UseMessage ==
    /\ pc = "start"
    /\ Truthy(args.message)
    /\ commit_message' = args.message
    /\ pc' = "validate"
    /\ UNCHANGED <<args, file, stdin, verdict, exit_code, stdout, file_opened,
                   stdin_read, validator_calls, validateVars, callVars>>

\* lines 160-163
ReadCommitFile ==
    /\ pc = "start"
    /\ ~Truthy(args.message)
    /\ Truthy(args.commit_file)
    /\ ~FileOutcome(file).raised
    /\ file_opened' = TRUE
    /\ commit_message' = FileOutcome(file).text
    /\ pc' = "validate"
    /\ UNCHANGED <<args, file, stdin, verdict, exit_code, stdout, stdin_read,
                   validator_calls, validateVars, callVars>>

\* lines 164-166
FileNotFound ==
    /\ pc = "start"
    /\ ~Truthy(args.message)
    /\ Truthy(args.commit_file)
    /\ FileOutcome(file).raised
    /\ file.status = "FileNotFoundError"
    /\ file_opened' = TRUE
    /\ stdout' = Append(stdout, "Error: Commit file not found")
    /\ exit_code' = <<1>>
    /\ pc' = "exited"
    /\ UNCHANGED <<args, file, stdin, commit_message, verdict, stdin_read,
                   validator_calls, validateVars, callVars>>

\* lines 167-169
FileReadError ==
    /\ pc = "start"
    /\ ~Truthy(args.message)
    /\ Truthy(args.commit_file)
    /\ FileOutcome(file).raised
    /\ file.status # "FileNotFoundError"
    /\ file_opened' = TRUE
    /\ stdout' = Append(stdout, "Error reading commit file")
    /\ exit_code' = <<1>>
    /\ pc' = "exited"
    /\ UNCHANGED <<args, file, stdin, commit_message, verdict, stdin_read,
                   validator_calls, validateVars, callVars>>

\* lines 170-172
ReadStdin ==
    /\ pc = "start"
    /\ ~Truthy(args.message)
    /\ ~Truthy(args.commit_file)
    /\ stdin_read' = TRUE
    /\ commit_message' = stdin
    /\ pc' = "validate"
    /\ UNCHANGED <<args, file, stdin, verdict, exit_code, stdout, file_opened,
                   validator_calls, validateVars, callVars>>

\* lines 175-176
MainValidate ==
    /\ pc = "validate"
    /\ verdict' = <<validate_commit_message(NewValidator, commit_message)>>
    /\ validator_calls' = validator_calls + 1
    /\ pc' = "report"
    /\ UNCHANGED <<args, file, stdin, commit_message, exit_code, stdout, file_opened,
                   stdin_read, validateVars, callVars>>

\* lines 178-206
ReportAndExit ==
    /\ pc = "report"
    /\ stdout' = stdout \o Report(verdict[1].valid, verdict[1].errors,
                                  verdict[1].warnings, args.strict)
    /\ exit_code' = <<ExitCode(verdict[1].valid, verdict[1].warnings, args.strict)>>
    /\ pc' = "exited"
    /\ UNCHANGED <<args, file, stdin, commit_message, verdict, file_opened, stdin_read,
                   validator_calls, validateVars, callVars>>

MainNext ==
    \/ UseMessage
    \/ ReadCommitFile
    \/ FileNotFound
    \/ FileReadError
    \/ ReadStdin
    \/ MainValidate
    \/ ReportAndExit

MainSpec == MainInit /\ [][MainNext]_vars

----------------------------------------------------------------------------
(* A sequence of calls on one CommitValidator.  The attributes name list   *)
(* objects; the tuple a call returns holds the same objects, so a caller   *)
(* that keeps it sees whatever is later done to them.                      *)

CallsInit ==
    /\ IdleValidate
    /\ IdleMain
    /\ IdleCalls

\* lines 53-54: the attributes are bound to two list objects made now
Rebind(refs, top) == [errors |-> top + 1, warnings |-> top + 2]

Store(h, a, v) == IF a \in DOMAIN h THEN [h EXCEPT ![a] = v] ELSE Append(h, v)

\* the caller keeps the tuple: the flag and the two list objects (and, for the
\* record, what the lists held when the call returned)
Returned(m, r, refs) ==
    [message |-> m, valid |-> r.valid, errors |-> refs.errors, warnings |-> refs.warnings,
     errors_value |-> r.errors, warnings_value |-> r.warnings]

CallReturns(m, r, refs) ==
    /\ validator' = refs
    /\ heap' = Store(Store(heap, refs.errors, r.errors), refs.warnings, r.warnings)
    /\ returned' = Append(returned, Returned(m, r, refs))

\* validate_commit_message(m) on the long-lived instance
Call(m) ==
    /\ Len(returned) < MaxCalls
    /\ CallReturns(m,
                   validate_commit_message([errors |-> heap[validator.errors],
                                            warnings |-> heap[validator.warnings]], m),
                   Rebind(validator, Len(heap)))
    /\ UNCHANGED <<validateVars, mainVars>>

CallsNext == \E m \in CallTexts : Call(m)

CallsSpec == CallsInit /\ [][CallsNext]_vars

----------------------------------------------------------------------------
(* What the claims speak of, stated on the raw text and independently of   *)
(* the validator's own helpers                                             *)

Message == Render(input)

Validated == result # <<>>

\* the subject line as the grammar parses it (NoMatch when there is none)
Subject ==
    LET lines == ContentLines(Message)
    IN  IF lines = <<>> THEN NoMatch ELSE CommitPatternMatch(lines[1])

SubjectType == Lower(Subject.type)

\* s contains S3CSI-<digits>, a digit being a decimal digit of any script
ContainsJiraId(s) ==
    \E i \in 1..(Len(s) - 6) :
        /\ SubSeq(s, i, i + 5) = Codes(<<"S","3","C","S","I","-">>)
        /\ IsDigit(s[i + 6])

\* s is exactly S3CSI-<digits>
IsJiraId(s) ==
    /\ Len(s) >= 7
    /\ SubSeq(s, 1, 6) = Codes(<<"S","3","C","S","I","-">>)
    /\ \A i \in 7..Len(s) : IsDigit(s[i])

\* m contains #<digits>
ContainsHashDigits(m) ==
    \E i \in 1..(Len(m) - 1) : m[i] = Ord["#"] /\ IsDigit(m[i + 1])

\* every line of m is blank or a comment
OnlyCommentsAndBlanks(m) ==
    \A line \in Range(Split(m)) : Strip(line) = <<>> \/ Strip(line)[1] = Ord["#"]

Rejected(error) == [valid |-> FALSE, errors |-> <<error>>, warnings |-> <<>>]

IssueIdTexts == {ErrRequiresIssueId(<<>>).text, ErrJiraFormat(<<>>).text}

----------------------------------------------------------------------------
\* C1: a message whose subject parses with a user-facing type, whose scope holds
\* no S3CSI-<digits> and whose raw text holds no #<digits>, is invalid and its
\* errors include the 'requires an issue ID' error.
C1_IssueIdRequired ==
    (/\ Validated
     /\ Subject.matched
     /\ SubjectType \in {feat, fix, perf, security, breaking}
     /\ ~ContainsJiraId(Subject.scope)
     /\ ~ContainsHashDigits(Message))
    => /\ ~result[1].valid
       /\ ErrRequiresIssueId(SubjectType) \in Range(result[1].errors)

C1_Witness ==
    /\ Validated
    /\ input.type = security
    /\ input.scope = ScopeJiraNoDigits
    /\ input.sep = SepColonSpace
    /\ input.desc = DescEndpoint
    /\ input.footer = FooterBody
    /\ ~result[1].valid
    /\ result[1].errors = <<ErrRequiresIssueId(security)>>

\* C2: comment and blank lines in front of a message change nothing of what the
\* validator returns for it, and a message of such lines alone is invalid with
\* exactly the 'cannot be empty' error.
C2_CommentsIgnored ==
    Validated =>
        /\ \A c \in CommentBlocks(MaxPrefixLines) :
               validate_commit_message(NewValidator, c \o Message) = result[1]
        /\ OnlyCommentsAndBlanks(Message) => result[1] = Rejected(ErrEmpty)

\* C3: for a development type the valid flag and the errors are those of the
\* message of the same type and description with no scope and nothing else
\* around it, so no two such messages differ in them, whatever scope or
\* #<digits> reference either carries.
C3_DevelopmentIssueIdOptional ==
    (/\ Validated
     /\ Subject.matched
     /\ SubjectType \in {docs, test, ci, chore, refactor, style, build, revert})
    => LET bare == validate_commit_message(
                       NewValidator, Subject.type \o Codes(<<":", " ">>) \o Subject.description)
       IN  /\ result[1].valid = bare.valid
           /\ result[1].errors = bare.errors

C3_Witness ==
    /\ Validated
    /\ input.type = chore
    /\ input.scope = ScopeJiraInside
    /\ input.sep = SepColonSpace
    /\ input.desc = DescBumpDeps
    /\ input.footer = FooterCloses
    /\ result[1].errors = <<ErrDescShort>>
    /\ result[1].warnings = <<>>

\* C5 as claimed: "chore(random!!): bump deps" is valid, with no error and the
\* one scope warning.
C5_ChoreExampleValid ==
    (Validated /\ Message = TextChore)
    => /\ result[1].valid
       /\ result[1].errors = <<>>
       /\ result[1].warnings = <<WarnScope(Codes(<<"r","a","n","d","o","m","!","!">>))>>

\* C5 amended: "chore(random!!): bump deps" is invalid, its one error being the
\* description shorter than 10 characters (it has 9), with the one scope warning.
C5_ChoreExampleShortDescription ==
    (Validated /\ Message = TextChore)
    => /\ ~result[1].valid
       /\ result[1].errors = <<ErrDescShort>>
       /\ result[1].warnings = <<WarnScope(Codes(<<"r","a","n","d","o","m","!","!">>))>>

C5_Witness ==
    /\ Validated
    /\ Message = TextChore
    /\ input.prefix = <<>>
    /\ Len(Subject.description) = 9

\* C6: validation that stops at a gate (no content line, subject not of the
\* grammar, type not recognized) returns invalid with that gate's one error
\* and no warning.
C6_GatesShortCircuit ==
    Validated =>
        /\ OnlyCommentsAndBlanks(Message) => result[1] = Rejected(ErrEmpty)
        /\ (~OnlyCommentsAndBlanks(Message) /\ ~Subject.matched)
               => result[1] = Rejected(ErrFormat(ContentLines(Message)[1]))
        /\ (Subject.matched /\ SubjectType \notin ALL_TYPES)
               => result[1] = Rejected(ErrType(SubjectType))

\* the type gate stops a message whose description is short, capitalised,
\* past tense and ends with a period
C6_Witness ==
    /\ Validated
    /\ input.type = TypeWip
    /\ input.scope = ScopeRandom
    /\ input.sep = SepColonSpace
    /\ input.desc = DescAdded
    /\ result[1] = Rejected(ErrType(TypeWip))

\* C10: for a user-facing type the 'Invalid JIRA issue format in scope' error is
\* there exactly when the scope contains S3CSI-<digits> without being exactly
\* that, whether or not the message holds #<digits>; it never comes with the
\* 'requires an issue ID' error, and there is at most one issue-id error.
C10_JiraFormatError ==
    (/\ Validated
     /\ Subject.matched
     /\ SubjectType \in {feat, fix, perf, security, breaking})
    => LET errors == result[1].errors
           malformed == ErrJiraFormat(Subject.scope) \in Range(errors)
           required == ErrRequiresIssueId(SubjectType) \in Range(errors)
       IN  /\ malformed <=> (ContainsJiraId(Subject.scope) /\ ~IsJiraId(Subject.scope))
           /\ ~(malformed /\ required)
           /\ Cardinality({i \in DOMAIN errors : errors[i].text \in IssueIdTexts}) <= 1

C10_Witness ==
    /\ Validated
    /\ input.type = breaking
    /\ input.scope = ScopeJiraInside
    /\ input.sep = SepColonSpace
    /\ input.desc = DescGithub
    /\ input.footer = FooterCloses
    /\ result[1].errors = <<ErrJiraFormat(Codes(<<"x","S","3","C","S","I","-","5">>))>>

----------------------------------------------------------------------------
\* C4: once the validator has run, main exits 1 exactly when the verdict is
\* invalid or --strict was given and there is a warning, and 0 otherwise; the
\* verdict is the validator's for the text read, which --strict has no part in.
C4_ExitStatus ==
    (pc = "exited" /\ validator_calls > 0)
    => LET v == verdict[1]
       IN  /\ exit_code \in {<<0>>, <<1>>}
           /\ exit_code = <<1>> <=> (~v.valid \/ (args.strict /\ v.warnings # <<>>))
           /\ v.valid <=> v.errors = <<>>
           /\ v = validate_commit_message(NewValidator, commit_message)
           /\ validator_calls = 1

C4_Witness ==
    /\ pc = "exited"
    /\ validator_calls = 1
    /\ args.strict
    /\ verdict[1].valid
    /\ verdict[1].warnings # <<>>
    /\ exit_code = <<1>>

FileGivenUnreadable == Truthy(args.commit_file) /\ file.status # "ok"

ExitedOnFileError ==
    /\ exit_code = <<1>>
    /\ stdout \in {<<"Error: Commit file not found">>, <<"Error reading commit file">>}

\* C7 as claimed: with a file path given and the file unreadable, main prints an
\* error and exits 1 and never calls the validator, whatever --message and
\* --strict are.
C7_UnreadableFileAlwaysFatal ==
    FileGivenUnreadable
    => /\ validator_calls = 0
       /\ pc \in {"start", "exited"}
       /\ pc = "exited" => ExitedOnFileError

\* C7 amended: with a non-empty file path given, the file unreadable and no
\* non-empty --message, main prints an error and exits 1 and never calls the
\* validator, with or without --strict.
C7_UnreadableFileFatalWithoutMessage ==
    (FileGivenUnreadable /\ ~Truthy(args.message))
    => /\ validator_calls = 0
       /\ pc \in {"start", "exited"}
       /\ pc = "exited" => ExitedOnFileError

C7_Witness ==
    /\ pc = "exited"
    /\ args.commit_file = CommitFilePath
    /\ args.message = None
    /\ args.strict
    /\ file.status = "OSError"
    /\ file_opened
    /\ validator_calls = 0
    /\ exit_code = <<1>>

\* C8: whenever --message is supplied, the empty string included, the text
\* validated is its value, and neither the file nor standard input is read.
C8_MessageTakesPriority ==
    args.message # None
    => /\ ~file_opened
       /\ ~stdin_read
       /\ pc \in {"validate", "report", "exited"} => commit_message = args.message

----------------------------------------------------------------------------
\* C9: each call on one instance returns what a new validator returns for that
\* message, and the lists an earlier call returned still hold what they held
\* when it returned.
C9_CallsIndependent ==
    \A i \in DOMAIN returned :
        LET r == returned[i]
            fresh == validate_commit_message(NewValidator, r.message)
        IN  /\ r.valid = fresh.valid
            /\ r.errors_value = fresh.errors
            /\ r.warnings_value = fresh.warnings
            /\ heap[r.errors] = r.errors_value
            /\ heap[r.warnings] = r.warnings_value

C9_Witness ==
    /\ Len(returned) = 3
    /\ returned[1].message = TextChore
    /\ returned[2].message = TextValid
    /\ returned[3].message = TextChore
    /\ returned[1].errors # returned[3].errors
    /\ heap[returned[1].errors] = heap[returned[3].errors]
    /\ heap[returned[2].errors] = <<>>

====
